---- MODULE Spec2Model ----
(***************************************************************************)
(* Model of Blender/Scripts/ImpostorGenerator.py: the impostor pipeline    *)
(* generate_impostor (target lookup, bounding cylinder, render settings,   *)
(* visibility isolation, capture loop, atlas, quads, cleanup), the pixel    *)
(* compositing of generate_texture_atlas and the UV assignment of          *)
(* create_intersecting_quads.                                              *)
(*                                                                         *)
(* Lengths are integers (a fixed unit); a Python float quotient a / b is   *)
(* kept as the exact pair <<a, b>>, so float rounding is outside the model.*)
(* The quad vertex positions (cos/sin of the view angle) are not modelled, *)
(* only the UVs and the quad count.                                        *)
(*                                                                         *)
(* Three specifications share the variables:                               *)
(*   Spec      generate_impostor from entry to return or raise; its atlas  *)
(*             stage keeps the layout and the tiles loaded, not the pixels *)
(*             (cells are BASE_RESOLUTION wide).                           *)
(*   SpecAtlas generate_texture_atlas on small cells with every pixel,     *)
(*             followed by create_intersecting_quads.                      *)
(*   SpecGrid  the grid layout and cell placement alone, for larger counts.*)
(***************************************************************************)
EXTENDS Integers, Sequences, FiniteSets, TLC

\* ---------------------------------------------------------------- bounds
MaxAngles == 5
MaxRes == 2
MaxCount == 24

\* ------------------------------------------------------ program constants
BASE_RESOLUTION == 512
Channels == 4

VARIABLES
    pc,                 \* position in generate_impostor / generate_texture_atlas
    failStage,          \* stage whose statement raised ("none" while running)
    failView,           \* view index of a failed render (-1 otherwise)
    TARGET_OBJECT_NAME, \* configuration: "None" or a name
    HORIZONTAL_ANGLES,  \* configuration: number of views
    world,              \* what bpy.data / bpy.context hold for the target
    target,             \* the resolved target: "unset", "None" or "obj"
    cyl,                \* <<width, height, min_z, mid_z, max_z>> as a record
    scene,              \* render settings of bpy.context.scene
    hide_render,        \* hide_render flag of every other object
    pre,                \* scene and hide_render on entry (history)
    old_settings,       \* dict returned by setup_render_settings
    original_vis,       \* dict object -> hide_render filled by the hide loop
    res,                \* <<res_x, res_y>>
    temp_files,         \* list of paths (view indices) appended after a render
    files,              \* temp files present on disk (view indices)
    cams,               \* ImpostorCam objects present in bpy.data.objects
    i,                  \* capture loop index
    count, cols, rows, atlas_width, atlas_height,
    atlas_pixels,       \* flat R,G,B,A list being composited
    atlas_img,          \* the image datablock: [width, height, pixels]
    idx,                \* atlas loop index
    loaded,             \* idx -> source image loaded for the tile, or NoImage
    failures,           \* tile indices whose processing raised (printed)
    uvs,                \* list of UV pairs, four per quad
    cells               \* SpecGrid: cell <<col, row>> placed for each index

pipeVars == <<failStage, failView, TARGET_OBJECT_NAME, world, target, cyl, scene,
              hide_render, pre, old_settings, original_vis, temp_files, files, cams, i>>
atlasVars == <<count, cols, rows, atlas_width, atlas_height, atlas_pixels, atlas_img,
               idx, loaded, failures>>
vars == <<pc, pipeVars, HORIZONTAL_ANGLES, res, atlasVars, uvs, cells>>

\* ------------------------------------------------------------- arithmetic
Min(a, b) == IF a < b THEN a ELSE b
Max(a, b) == IF a > b THEN a ELSE b

\* math.sqrt on the perfect squares the inputs produce
Sqrt(s) == CHOOSE r \in 0..s : r * r = s

\* math.ceil(math.sqrt(n))
CeilSqrt(n) == CHOOSE c \in 0..n : c * c >= n /\ \A d \in 0..(c - 1) : d * d < n

FloorDiv(a, b) == a \div b

\* math.ceil(a / b), a >= 0, b > 0
CeilDivMutant(a, b) == a \div b
CeilDiv(a, b) == (a + b - 1) \div b

\* a float quotient a / b kept exact
Quot(a, b) == <<a, b>>
QuotEq(p, q) == p[1] * q[2] = q[1] * p[2]

NoCyl == [width |-> -1, height |-> -1, min_z |-> 0, mid_z |-> <<0, 1>>, max_z |-> 0]
NoImage == [w |-> -1, h |-> -1, id |-> -1]
NoRes == <<0, 0>>

\* ------------------------------------------------------------------ inputs
Others == {"o1", "o2"}

BoundBoxes ==
    { [xmin |-> -3, xmax |-> 3, ymin |-> -4, ymax |-> 4, zmin |-> 0, zmax |-> 10],
      [xmin |-> -3, xmax |-> 3, ymin |-> -4, ymax |-> 4, zmin |-> -5, zmax |-> 10],
      [xmin |-> -3, xmax |-> 3, ymin |-> -4, ymax |-> 4, zmin |-> 0, zmax |-> 20],
      [xmin |-> -4, xmax |-> 4, ymin |-> -3, ymax |-> 3, zmin |-> 1, zmax |-> 8],
      [xmin |-> -3, xmax |-> 3, ymin |-> -4, ymax |-> 4, zmin |-> -1, zmax |-> 10],
      [xmin |-> -1, xmax |-> 5, ymin |-> 0, ymax |-> 12, zmin |-> 0, zmax |-> 4],
      [xmin |-> 0, xmax |-> 0, ymin |-> 0, ymax |-> 0, zmin |-> 0, zmax |-> 5],
      [xmin |-> -3, xmax |-> 3, ymin |-> -4, ymax |-> 4, zmin |-> 2, zmax |-> 2] }

Locations == { <<0, 0, 0>>, <<2, -1, 3>> }

\* present: the lookup (bpy.data.objects.get(TARGET_OBJECT_NAME), or the first of
\* bpy.context.selected_objects) finds an object; type, bound_box, location: that object
Worlds ==
    { [present |-> p, type |-> t, bound_box |-> b, location |-> l] :
        p \in BOOLEAN, t \in {"MESH", "EMPTY"}, b \in BoundBoxes, l \in Locations }

FlatBox == [xmin |-> -3, xmax |-> 3, ymin |-> -4, ymax |-> 4, zmin |-> 2, zmax |-> 2]

\* one world per distinguishable case: the box and location of a non-mesh or of a
\* target that is not there are never read
InitWorlds ==
    { w \in Worlds :
        /\ (w.type = "EMPTY" \/ ~w.present)
              => (w.location = <<0, 0, 0>> /\ w.bound_box = FlatBox)
        /\ ~w.present => w.type = "MESH" }

Scenes ==
    { [engine |-> e, light |-> l, color_type |-> c, shadows |-> s, film |-> f,
       res_x |-> 1920, res_y |-> 1080, filepath |-> "orig", camera |-> "orig"] :
        e \in {"BLENDER_EEVEE", "BLENDER_WORKBENCH"},
        l \in {"STUDIO", "FLAT"},
        c \in {"MATERIAL", "TEXTURE"},
        s \in BOOLEAN, f \in BOOLEAN }

\* -------------------------------------------------- get_tight_bounds_and_aspect
Corners(w) ==
    { <<w.location[1] + x, w.location[2] + y, w.location[3] + z>> :
        x \in {w.bound_box.xmin, w.bound_box.xmax},
        y \in {w.bound_box.ymin, w.bound_box.ymax},
        z \in {w.bound_box.zmin, w.bound_box.zmax} }

SetMin(S) == CHOOSE m \in S : \A x \in S : m <= x
SetMax(S) == CHOOSE m \in S : \A x \in S : m >= x

DistSq(c, w) ==
    (c[1] - w.location[1]) * (c[1] - w.location[1])
    + (c[2] - w.location[2]) * (c[2] - w.location[2])

DefaultBoundsMutant == [width |-> 1, height |-> 2, min_z |-> -1, mid_z |-> <<0, 1>>, max_z |-> 1]
DefaultBounds == [width |-> 2, height |-> 2, min_z |-> -1, mid_z |-> <<0, 1>>, max_z |-> 1]

get_tight_bounds_and_aspect(w) ==
    IF w.type # "MESH" THEN DefaultBounds
    ELSE LET corners == Corners(w)
             min_z == SetMin({c[3] : c \in corners})
             max_z == SetMax({c[3] : c \in corners})
             max_radius_sq == SetMax({0} \cup {DistSq(c, w) : c \in corners})
             max_radius == Sqrt(max_radius_sq)
         IN [width |-> max_radius * 2, height |-> max_z - min_z,
             min_z |-> min_z, mid_z |-> Quot(min_z + max_z, 2), max_z |-> max_z]

\* ------------------------------------------------------ setup_render_settings
\* height / width, BASE_RESOLUTION / ratio: ZeroDivisionError
RatioRaises(width, height) == width = 0 \/ height = 0

EnsureEven(n) == IF n % 2 # 0 THEN n + 1 ELSE n

\* int(BASE_RESOLUTION * ratio), int(BASE_RESOLUTION / ratio) with ratio = height / width
Resolution(width, height) ==
    IF height > width
    THEN <<EnsureEven(BASE_RESOLUTION),
           EnsureEven(FloorDiv(BASE_RESOLUTION * height, width))>>
    ELSE <<EnsureEven(FloorDiv(BASE_RESOLUTION * width, height)),
           EnsureEven(BASE_RESOLUTION)>>

SavedSettings(s) ==
    [engine |-> s.engine, light |-> s.light, color_type |-> s.color_type,
     shadows |-> s.shadows, film |-> s.film, res_x |-> s.res_x, res_y |-> s.res_y]

RenderScene(s, r) ==
    [s EXCEPT !.engine = "BLENDER_WORKBENCH", !.light = "FLAT", !.color_type = "TEXTURE",
              !.shadows = FALSE, !.film = TRUE, !.res_x = r[1], !.res_y = r[2]]

\* "# 6. Cleanup" of generate_impostor
RestoredScene(s, old) ==
    [s EXCEPT !.engine = old.engine, !.res_x = old.res_x, !.res_y = old.res_y,
              !.film = old.film]

\* --------------------------------------------------------------- atlas grid
GridCols(n) == CeilSqrt(n)
GridRows(n) == CeilDiv(n, GridCols(n))

ColIdx(k, c) == k % c
RowIdx(k, c) == k \div c

\* ------------------------------------------------------------ Python lists
\* s[a:b] for 0 <= a <= b (indices clamp to the list)
PySlice(s, a, b) == SubSeq(s, Min(a, Len(s)) + 1, Min(b, Len(s)))

\* s[a:b] = d for 0 <= a <= b: the slice is replaced by d, whatever their lengths
PySliceAssign(s, a, b, d) ==
    LET lo == Min(a, Len(s))
        hi == Max(lo, Min(b, Len(s)))
    IN SubSeq(s, 1, lo) \o d \o SubSeq(s, hi + 1, Len(s))

Zeros(n) == [k \in 1..n |-> 0]

\* ------------------------------------------------------ generate_texture_atlas
\* list(src_img.pixels): the flat R,G,B,A list of a w x h image; every sample of
\* every view is a different non-zero value
SrcPixels(img) == [k \in 1..(img.w * img.h * Channels) |-> (img.id + 1) * 1000 + k]

\* what bpy.data.images.load(path) can give for tile k: an image of the cell's
\* size, a narrower one, a wider one, or an exception (NoImage)
LoadResults(k, r) ==
    { [w |-> r[1], h |-> r[2], id |-> k],
      [w |-> r[1] - 1, h |-> r[2], id |-> k],
      [w |-> r[1] + 1, h |-> r[2], id |-> k],
      NoImage }

BaseX(k, c, res_x) == ColIdx(k, c) * res_x
BaseY(k, c, res_y) == RowIdx(k, c) * res_y

SrcStartMutant(y, res_x) == y * res_x
SrcStart(y, res_x) == y * res_x * Channels

TargetStart(target_y, base_x, aw) == (target_y * aw + base_x) * Channels

TargetEndMutant(target_start, row_data, res_x) == target_start + res_x * Channels
TargetEnd(target_start, row_data, res_x) == target_start + Len(row_data)

\* the loop "for y in range(res_y)" from row y on
RECURSIVE CopyRows(_, _, _, _, _, _, _, _)
CopyRows(pixels, src_pixels, y, res_x, res_y, base_x, base_y, aw) ==
    IF y >= res_y THEN pixels
    ELSE LET src_start == SrcStart(y, res_x)
             src_end == src_start + (res_x * Channels)
             row_data == PySlice(src_pixels, src_start, src_end)
             target_y == base_y + y
             target_start == TargetStart(target_y, base_x, aw)
         IN CopyRows(PySliceAssign(pixels, target_start,
                                   TargetEnd(target_start, row_data, res_x), row_data),
                     src_pixels, y + 1, res_x, res_y, base_x, base_y, aw)

\* ---------------------------------------------------- create_intersecting_quads
UMin(q, c) == Quot(ColIdx(q, c), c)
UMax(q, c) == Quot(ColIdx(q, c) + 1, c)
QuadRowMutant(q, c, r) == q \div r
QuadRow(q, c, r) == RowIdx(q, c)
VMin(q, c, r) == Quot(QuadRow(q, c, r), r)
VMax(q, c, r) == Quot(QuadRow(q, c, r) + 1, r)

\* Order: BL, BR, TR, TL
QuadUV(q, c, r) ==
    << <<UMin(q, c), VMin(q, c, r)>>, <<UMax(q, c), VMin(q, c, r)>>,
       <<UMax(q, c), VMax(q, c, r)>>, <<UMin(q, c), VMax(q, c, r)>> >>

RECURSIVE QuadUVs(_, _, _, _)
QuadUVs(q, n, c, r) ==
    IF q >= n THEN <<>> ELSE QuadUV(q, c, r) \o QuadUVs(q + 1, n, c, r)

\* =================================================================== state
Range(s) == {s[k] : k \in DOMAIN s}

BlankPipe ==
    /\ failStage = "none" /\ failView = -1
    /\ target = "unset" /\ cyl = NoCyl
    /\ old_settings = SavedSettings(scene)
    /\ original_vis = hide_render
    /\ pre = [scene |-> scene, hide_render |-> hide_render]
    /\ temp_files = <<>> /\ files = {} /\ cams = 0 /\ i = 0

BlankAtlas ==
    /\ count = 0 /\ cols = 0 /\ rows = 0 /\ atlas_width = 0 /\ atlas_height = 0
    /\ atlas_pixels = <<>>
    /\ atlas_img = [width |-> 0, height |-> 0, pixels |-> <<>>]
    /\ idx = 0 /\ loaded = <<>> /\ failures = {}
    /\ uvs = <<>> /\ cells = <<>>

\* entry of generate_impostor
Init ==
    /\ pc = "start"
    /\ TARGET_OBJECT_NAME \in {"None", "Tree"}
    /\ HORIZONTAL_ANGLES \in 1..MaxAngles
    /\ world \in InitWorlds
    /\ scene \in Scenes
    /\ hide_render \in [Others -> BOOLEAN]
    /\ res = NoRes
    /\ BlankPipe /\ BlankAtlas

\* lines 281-287
ResolveTarget ==
    /\ pc = "start"
    /\ IF TARGET_OBJECT_NAME # "None"
       THEN /\ target' = (IF world.present THEN "obj" ELSE "None")
            /\ pc' = "bounds"
       ELSE IF world.present
       THEN /\ target' = "obj"
            /\ pc' = "bounds"
       ELSE /\ target' = "None"
            /\ pc' = "returned"
    /\ UNCHANGED <<failStage, failView, TARGET_OBJECT_NAME, world, cyl, scene, hide_render,
                   pre, old_settings, original_vis, temp_files, files, cams, i>>
    /\ UNCHANGED <<HORIZONTAL_ANGLES, res, atlasVars, uvs, cells>>

\* lines 290-293; obj.type on None raises AttributeError
Bounds ==
    /\ pc = "bounds"
    /\ IF target = "None"
       THEN /\ pc' = "raised" /\ failStage' = "bounds" /\ cyl' = cyl
       ELSE /\ pc' = "setup" /\ failStage' = failStage
            /\ cyl' = get_tight_bounds_and_aspect(world)
    /\ UNCHANGED <<failView, TARGET_OBJECT_NAME, world, target, scene, hide_render,
                   pre, old_settings, original_vis, temp_files, files, cams, i>>
    /\ UNCHANGED <<HORIZONTAL_ANGLES, res, atlasVars, uvs, cells>>

\* lines 296-297 (setup_render_settings, lines 50-84)
setup_render_settings ==
    /\ pc = "setup"
    /\ IF RatioRaises(cyl.width, cyl.height)
       THEN /\ pc' = "raised" /\ failStage' = "setup"
            /\ UNCHANGED <<scene, old_settings, res>>
       ELSE /\ pc' = "hide" /\ failStage' = failStage
            /\ res' = Resolution(cyl.width, cyl.height)
            /\ old_settings' = SavedSettings(scene)
            /\ scene' = RenderScene(scene, res')
    /\ UNCHANGED <<failView, TARGET_OBJECT_NAME, world, target, cyl, hide_render,
                   pre, original_vis, temp_files, files, cams, i>>
    /\ UNCHANGED <<HORIZONTAL_ANGLES, atlasVars, uvs, cells>>

\* lines 299-305: every object but the target
HideOthers ==
    /\ pc = "hide"
    /\ original_vis' = hide_render
    /\ hide_render' = [o \in Others |-> TRUE]
    /\ temp_files' = <<>>
    /\ i' = 0
    /\ pc' = "capture"
    /\ UNCHANGED <<failStage, failView, TARGET_OBJECT_NAME, world, target, cyl, scene,
                   pre, old_settings, files, cams>>
    /\ UNCHANGED <<HORIZONTAL_ANGLES, res, atlasVars, uvs, cells>>

\* lines 310-323, bpy.ops.render.render returns
RenderView ==
    /\ pc = "capture" /\ i < HORIZONTAL_ANGLES
    /\ scene' = [scene EXCEPT !.camera = "removed", !.filepath = "temp"]
    /\ files' = files \cup {i}
    /\ temp_files' = Append(temp_files, i)
    /\ i' = i + 1
    /\ pc' = (IF i + 1 < HORIZONTAL_ANGLES THEN "capture" ELSE "atlas")
    /\ UNCHANGED <<failStage, failView, TARGET_OBJECT_NAME, world, target, cyl,
                   hide_render, pre, old_settings, original_vis, cams>>
    /\ UNCHANGED <<HORIZONTAL_ANGLES, res, atlasVars, uvs, cells>>

\* lines 310-320, bpy.ops.render.render raises: nothing after it runs
RenderFails ==
    /\ pc = "capture" /\ i < HORIZONTAL_ANGLES
    /\ scene' = [scene EXCEPT !.camera = "impostor", !.filepath = "temp"]
    /\ cams' = cams + 1
    /\ pc' = "raised" /\ failStage' = "capture" /\ failView' = i
    /\ UNCHANGED <<TARGET_OBJECT_NAME, world, target, cyl, hide_render, pre,
                   old_settings, original_vis, temp_files, files, i>>
    /\ UNCHANGED <<HORIZONTAL_ANGLES, res, atlasVars, uvs, cells>>

\* line 326: generate_texture_atlas on the run's temp files, each rendered at
\* res_x x res_y; the layout and the tiles loaded, without the pixels
GenerateAtlasStage ==
    /\ pc = "atlas"
    /\ count' = HORIZONTAL_ANGLES
    /\ cols' = GridCols(count')
    /\ rows' = GridRows(count')
    /\ atlas_width' = res[1] * cols'
    /\ atlas_height' = res[2] * rows'
    /\ atlas_pixels' = <<>>
    /\ atlas_img' = [width |-> atlas_width', height |-> atlas_height', pixels |-> <<>>]
    /\ idx' = Len(temp_files)
    /\ loaded' = [k \in 1..Len(temp_files) |->
                    IF temp_files[k] \in files
                    THEN [w |-> res[1], h |-> res[2], id |-> temp_files[k]]
                    ELSE NoImage]
    /\ failures' = {k \in 0..(Len(temp_files) - 1) : temp_files[k + 1] \notin files}
    /\ pc' = "quads"
    /\ UNCHANGED <<pipeVars, HORIZONTAL_ANGLES, res, uvs, cells>>

\* lines 329-342 (create_intersecting_quads, lines 183-253)
create_intersecting_quads ==
    /\ pc = "quads"
    /\ uvs' = QuadUVs(0, HORIZONTAL_ANGLES, cols, rows)
    /\ pc' = "cleanup"
    /\ UNCHANGED <<pipeVars, HORIZONTAL_ANGLES, res, atlasVars, cells>>

\* lines 344-360
Cleanup ==
    /\ pc = "cleanup"
    /\ scene' = RestoredScene(scene, old_settings)
    /\ hide_render' = [o \in Others |-> original_vis[o]]
    /\ files' = files \ Range(temp_files)
    /\ pc' = "done"
    /\ UNCHANGED <<failStage, failView, TARGET_OBJECT_NAME, world, target, cyl, pre,
                   old_settings, original_vis, temp_files, cams, i>>
    /\ UNCHANGED <<HORIZONTAL_ANGLES, res, atlasVars, uvs, cells>>

Next ==
    \/ ResolveTarget
    \/ Bounds
    \/ setup_render_settings
    \/ HideOthers
    \/ RenderView
    \/ RenderFails
    \/ GenerateAtlasStage
    \/ create_intersecting_quads
    \/ Cleanup

Spec == Init /\ [][Next]_vars

\* ------------------------------------------------------------- SpecAtlas
\* entry of generate_texture_atlas(image_paths, res_x, res_y, count), called as in
\* line 326 with count = HORIZONTAL_ANGLES and one path per view
InitAtlas ==
    /\ pc = "atlas"
    /\ TARGET_OBJECT_NAME = "None"
    /\ HORIZONTAL_ANGLES \in 1..MaxAngles
    /\ world = [present |-> TRUE, type |-> "MESH", bound_box |-> FlatBox,
                location |-> <<0, 0, 0>>]
    /\ scene = [engine |-> "BLENDER_WORKBENCH", light |-> "FLAT", color_type |-> "TEXTURE",
                shadows |-> FALSE, film |-> TRUE, res_x |-> 1920, res_y |-> 1080,
                filepath |-> "orig", camera |-> "orig"]
    /\ hide_render = [o \in Others |-> TRUE]
    /\ res \in (1..MaxRes) \X (1..MaxRes)
    /\ failStage = "none" /\ failView = -1
    /\ target = "obj" /\ cyl = NoCyl
    /\ old_settings = SavedSettings(scene)
    /\ original_vis = hide_render
    /\ pre = [scene |-> scene, hide_render |-> hide_render]
    /\ temp_files = [k \in 1..HORIZONTAL_ANGLES |-> k - 1]
    /\ files = {} /\ cams = 0 /\ i = HORIZONTAL_ANGLES
    /\ BlankAtlas

\* lines 118-134
AtlasBegin ==
    /\ pc = "atlas"
    /\ count' = HORIZONTAL_ANGLES
    /\ cols' = GridCols(count')
    /\ rows' = GridRows(count')
    /\ atlas_width' = res[1] * cols'
    /\ atlas_height' = res[2] * rows'
    /\ atlas_img' = [width |-> atlas_width', height |-> atlas_height', pixels |-> <<>>]
    /\ atlas_pixels' = Zeros(atlas_width' * atlas_height' * Channels)
    /\ idx' = 0 /\ loaded' = <<>> /\ failures' = {}
    /\ pc' = "tiles"
    /\ UNCHANGED <<pipeVars, HORIZONTAL_ANGLES, res, uvs, cells>>

\* lines 136-170: one iteration of "for idx, path in enumerate(image_paths)"
AtlasTile ==
    /\ pc = "tiles" /\ idx < Len(temp_files)
    /\ \E img \in LoadResults(idx, res) :
          /\ loaded' = Append(loaded, img)
          /\ IF img = NoImage
             THEN /\ failures' = failures \cup {idx}
                  /\ atlas_pixels' = atlas_pixels
             ELSE /\ failures' = failures
                  /\ atlas_pixels' =
                        CopyRows(atlas_pixels, SrcPixels(img), 0, res[1], res[2],
                                 BaseX(idx, cols, res[1]), BaseY(idx, cols, res[2]),
                                 atlas_width)
    /\ idx' = idx + 1
    /\ UNCHANGED <<pc, pipeVars, HORIZONTAL_ANGLES, res, count, cols, rows, atlas_width,
                   atlas_height, atlas_img, uvs, cells>>

\* lines 172-181
AtlasFinish ==
    /\ pc = "tiles" /\ idx = Len(temp_files)
    /\ atlas_img' = [atlas_img EXCEPT !.pixels = atlas_pixels]
    /\ pc' = "quads"
    /\ UNCHANGED <<pipeVars, HORIZONTAL_ANGLES, res, count, cols, rows, atlas_width,
                   atlas_height, atlas_pixels, idx, loaded, failures, uvs, cells>>

NextAtlas ==
    \/ AtlasBegin
    \/ AtlasTile
    \/ AtlasFinish
    \/ create_intersecting_quads

SpecAtlas == InitAtlas /\ [][NextAtlas]_vars

\* -------------------------------------------------------------- SpecGrid
InitGrid ==
    /\ pc = "grid"
    /\ TARGET_OBJECT_NAME = "None"
    /\ HORIZONTAL_ANGLES \in 1..MaxCount
    /\ world = [present |-> TRUE, type |-> "MESH", bound_box |-> FlatBox,
                location |-> <<0, 0, 0>>]
    /\ scene = [engine |-> "BLENDER_WORKBENCH", light |-> "FLAT", color_type |-> "TEXTURE",
                shadows |-> FALSE, film |-> TRUE, res_x |-> 1920, res_y |-> 1080,
                filepath |-> "orig", camera |-> "orig"]
    /\ hide_render = [o \in Others |-> TRUE]
    /\ res = NoRes
    /\ BlankPipe /\ BlankAtlas

\* lines 119-120
GridLayout ==
    /\ pc = "grid"
    /\ count' = HORIZONTAL_ANGLES
    /\ cols' = GridCols(count')
    /\ rows' = GridRows(count')
    /\ idx' = 0
    /\ pc' = "place"
    /\ UNCHANGED <<pipeVars, HORIZONTAL_ANGLES, res, atlas_width, atlas_height,
                   atlas_pixels, atlas_img, loaded, failures, uvs, cells>>

\* lines 136-139: the cell of tile idx
PlaceCell ==
    /\ pc = "place" /\ idx < count
    /\ cells' = Append(cells, <<ColIdx(idx, cols), RowIdx(idx, cols)>>)
    /\ idx' = idx + 1
    /\ UNCHANGED <<pc, pipeVars, HORIZONTAL_ANGLES, res, count, cols, rows, atlas_width,
                   atlas_height, atlas_pixels, atlas_img, loaded, failures, uvs>>

NextGrid == GridLayout \/ PlaceCell

SpecGrid == InitGrid /\ [][NextGrid]_vars

\* ================================================================== claims
SettingsRestored ==
    /\ scene.engine = pre.scene.engine
    /\ scene.light = pre.scene.light
    /\ scene.color_type = pre.scene.color_type
    /\ scene.shadows = pre.scene.shadows
    /\ scene.film = pre.scene.film
    /\ scene.res_x = pre.scene.res_x
    /\ scene.res_y = pre.scene.res_y

VisibilityRestored == \A o \in Others : hide_render[o] = pre.hide_render[o]

RenderFailed == pc = "raised" /\ failStage = "capture"

\* C1: when the renderer fails on a view of the capture loop, every object whose
\* hide_render flag the run changed has its pre-run flag again by the time the error
\* has left generate_impostor.
C1_VisibilityRestoredOnRenderFailure == RenderFailed => VisibilityRestored

\* C2: after generate_impostor completes, the seven render settings the run changed
\* (engine, light, color_type, show_shadows, film_transparent, resolution_x,
\* resolution_y) and every hide_render flag equal their values before the run.
C2_StateRestoredOnSuccess == pc = "done" => (SettingsRestored /\ VisibilityRestored)

\* C3: when the run aborts at view i of the capture loop, no temporary capture file
\* written for views 0..i-1 is left on disk once the error has surfaced.
C3_TempFilesPurgedOnAbort == RenderFailed => files = {}

\* ---- pixels of the atlas
IsExact(img) == img.w = res[1] /\ img.h = res[2]

\* 1-based position in a flat R,G,B,A list of channel c of pixel (x, y), row width w
Flat(x, y, c, w) == (y * w + x) * Channels + c + 1

CellXs(k) == ((k % cols) * res[1]) .. ((k % cols) * res[1] + res[1] - 1)
CellYs(k) == ((k \div cols) * res[2]) .. ((k \div cols) * res[2] + res[2] - 1)

\* positions of the flat atlas list that belong to the cell of tile k
CellPositions(k) ==
    { Flat(x, y, c, atlas_width) : x \in CellXs(k), y \in CellYs(k), c \in 0..(Channels - 1) }

TileMatchesSource(pixels, k) ==
    \A x \in 0..(res[1] - 1), y \in 0..(res[2] - 1), c \in 0..(Channels - 1) :
        pixels[Flat((k % cols) * res[1] + x, (k \div cols) * res[2] + y, c, atlas_width)]
            = SrcPixels(loaded[k + 1])[Flat(x, y, c, res[1])]

\* C4: every tile already composited whose source is exactly res_x by res_y has its
\* pixel (x, y) at atlas pixel (col*res_x + x, row*res_y + y), col = i mod cols,
\* row = i div cols, during the rest of the loop (no later tile overwrites it) and
\* in the image the function returns.
C4_AtlasPixelsMatchSource ==
    /\ pc = "tiles" =>
          \A k \in 0..(idx - 1) : IsExact(loaded[k + 1]) => TileMatchesSource(atlas_pixels, k)
    /\ pc \in {"quads", "cleanup"} =>
          \A k \in 0..(count - 1) :
              IsExact(loaded[k + 1]) => TileMatchesSource(atlas_img.pixels, k)

C4_Witness ==
    /\ pc = "quads" /\ count >= 3
    /\ IsExact(loaded[1]) /\ IsExact(loaded[count])
    /\ \E k \in 2..(count - 1) : loaded[k] # NoImage /\ ~IsExact(loaded[k])

\* C5: a tile whose source size is not res_x by res_y is skipped: its cell stays all
\* zero and its index is recorded as a failure.
C5_MismatchedTileSkipped ==
    pc = "tiles" =>
        \A k \in 0..(idx - 1) :
            (loaded[k + 1] # NoImage /\ ~IsExact(loaded[k + 1]))
                => /\ \A p \in CellPositions(k) : atlas_pixels[p] = 0
                   /\ k \in failures

\* C10: whatever source a tile loads, compositing it leaves every atlas sample
\* outside the tile's cell unchanged and the list atlas_w * atlas_h * 4 long.
C10_TileWritesOnlyItsCell ==
    [][ (pc = "tiles" /\ idx' = idx + 1) =>
          /\ Len(atlas_pixels) = atlas_width * atlas_height * Channels
          /\ Len(atlas_pixels') = atlas_width * atlas_height * Channels
          /\ \A p \in (1..Len(atlas_pixels)) \ CellPositions(idx) :
                atlas_pixels'[p] = atlas_pixels[p] ]_vars

C10_Witness ==
    /\ pc = "tiles" /\ idx >= 2
    /\ loaded[1] # NoImage /\ loaded[1].w > res[1]
    /\ loaded[2] # NoImage /\ loaded[2].w < res[1]

\* ---- UVs
\* a quotient times an integer equals an integer
ScalesTo(q, n, m) == q[1] * n = m * q[2]

\* C6: quad i's UVs are (u_min, v_min), (u_max, v_min), (u_max, v_max), (u_min, v_max)
\* and, scaled by the atlas width and height, give the pixel rectangle
\* [col*res_x, (col+1)*res_x) by [row*res_y, (row+1)*res_y), col = i mod cols,
\* row = i div cols, which holds view i's pixels; for 4 views the grid is 2 by 2.
C6_QuadUVAddressesItsTile ==
    pc = "cleanup" =>
        /\ Len(uvs) = 4 * HORIZONTAL_ANGLES
        /\ HORIZONTAL_ANGLES = 4 => (cols = 2 /\ rows = 2)
        /\ \A q \in 0..(HORIZONTAL_ANGLES - 1) :
              LET bl == uvs[4 * q + 1]
                  br == uvs[4 * q + 2]
                  tr == uvs[4 * q + 3]
                  tl == uvs[4 * q + 4]
              IN /\ bl[1] = tl[1] /\ br[1] = tr[1] /\ bl[2] = br[2] /\ tr[2] = tl[2]
                 /\ ScalesTo(bl[1], atlas_img.width, (q % cols) * res[1])
                 /\ ScalesTo(tr[1], atlas_img.width, ((q % cols) + 1) * res[1])
                 /\ ScalesTo(bl[2], atlas_img.height, (q \div cols) * res[2])
                 /\ ScalesTo(tr[2], atlas_img.height, ((q \div cols) + 1) * res[2])
                 /\ IsExact(loaded[q + 1]) =>
                       \A x \in 0..(res[1] - 1), y \in 0..(res[2] - 1),
                          c \in 0..(Channels - 1) :
                           atlas_img.pixels[
                               Flat((bl[1][1] * atlas_img.width) \div bl[1][2] + x,
                                    (bl[2][1] * atlas_img.height) \div bl[2][2] + y,
                                    c, atlas_img.width)]
                             = SrcPixels(loaded[q + 1])[Flat(x, y, c, res[1])]

C6_Witness ==
    /\ pc = "cleanup" /\ HORIZONTAL_ANGLES = 4 /\ cols = 2 /\ rows = 2
    /\ \A k \in 1..4 : IsExact(loaded[k])
    /\ uvs[13] = <<Quot(1, 2), Quot(1, 2)>> /\ uvs[15] = <<Quot(2, 2), Quot(2, 2)>>

\* ---- grid
\* C7: cols = ceil(sqrt(N)), rows = ceil(N / cols), cols * rows >= N; view i gets
\* cell (i mod cols, i div cols) with row < rows, and distinct views distinct cells.
C7_GridHoldsEveryView ==
    pc = "place" =>
        /\ cols >= 1 /\ cols * cols >= count /\ (cols - 1) * (cols - 1) < count
        /\ rows >= 1 /\ rows * cols >= count /\ (rows - 1) * cols < count
        /\ \A k \in 1..Len(cells) :
              /\ cells[k] = <<(k - 1) % cols, (k - 1) \div cols>>
              /\ cells[k][1] < cols /\ cells[k][2] < rows
              /\ \A j \in 1..Len(cells) : j # k => cells[j] # cells[k]

C7_Witness ==
    /\ pc = "place" /\ count = 8 /\ Len(cells) = 8 /\ cols = 3 /\ rows = 3
    /\ cells[8] = <<1, 2>>

\* ---- target
TargetInvalid == ~world.present \/ world.type # "MESH"
PastBounds == pc \notin {"start", "bounds"}

C9_ResolutionAlwaysEven ==
    (cyl # NoCyl /\ pc # "setup") =>
        /\ ~(pc = "raised" /\ failStage = "setup")
        /\ res[1] % 2 = 0 /\ res[2] % 2 = 0
        /\ res[1] >= BASE_RESOLUTION /\ res[2] >= BASE_RESOLUTION

====
